---------------------------- MODULE Spec2Model ----------------------------
(***************************************************************************)
(* Model of the polysemous-gloss annotation scripts of tavoli/pensvm:      *)
(*   scripts/add_polysemous_glosses.py  (alternative-generation)           *)
(*   scripts/add_gloss_notes.py         (note-attachment)                  *)
(*                                                                         *)
(* Python strings are TLA+ strings; Len, \o, SubSeq, Head and Tail act on  *)
(* them character by character.  The module text is ASCII, so the long     *)
(* vowels of the Latin data are written as digits, one character each:     *)
(*   a-macron = 4, e-macron = 3, i-macron = 1, o-macron = 0, u-macron = 7  *)
(* (capital I-macron = 1 as well: no key differs only by that letter).     *)
(***************************************************************************)
EXTENDS Integers, Sequences, FiniteSets, TLC

(***************************************************************************)
(* Python str primitives                                                   *)
(***************************************************************************)

\* s[i], 1-based
Char(s, i) == SubSeq(s, i, i)

\* s.startswith(p)
StartsWith(s, p) == Len(s) >= Len(p) /\ SubSeq(s, 1, Len(p)) = p

\* s.endswith(p)
EndsWith(s, p) == Len(s) >= Len(p) /\ SubSeq(s, Len(s) - Len(p) + 1, Len(s)) = p

\* sub in s
Contains(s, sub) ==
    \E i \in 1..(Len(s) - Len(sub) + 1) : SubSeq(s, i, i + Len(sub) - 1) = sub

\* the characters str.strip() removes
Whitespace == {" ", "\t", "\n", "\r", "\f"}

UpperCase == "ABCDEFGHIJKLMNOPQRSTUVWXYZ"

LowerCase == "abcdefghijklmnopqrstuvwxyz"

UpperChars == {Char(UpperCase, i) : i \in 1..Len(UpperCase)}

\* upper-case letter -> lower-case letter
ToLower ==
    [c \in UpperChars |->
        Char(LowerCase, CHOOSE i \in 1..Len(UpperCase) : Char(UpperCase, i) = c)]

\* one character of s.lower()
LowerCh(c) == IF c \in UpperChars THEN ToLower[c] ELSE c

RECURSIVE Lower(_)
\* s.lower()
Lower(s) == IF s = "" THEN "" ELSE LowerCh(Head(s)) \o Lower(Tail(s))

RECURSIVE LStrip(_)
\* s.lstrip()
LStrip(s) == IF s # "" /\ Head(s) \in Whitespace THEN LStrip(Tail(s)) ELSE s

RECURSIVE RStrip(_)
\* s.rstrip()
RStrip(s) ==
    IF s # "" /\ Char(s, Len(s)) \in Whitespace
    THEN RStrip(SubSeq(s, 1, Len(s) - 1))
    ELSE s

\* s.strip()
Strip(s) == LStrip(RStrip(s))

RECURSIVE RStripCh(_, _)
\* s.rstrip(c) for a single character c
RStripCh(s, c) ==
    IF s # "" /\ Char(s, Len(s)) = c
    THEN RStripCh(SubSeq(s, 1, Len(s) - 1), c)
    ELSE s

\* s.removeprefix(p)
RemovePrefix(s, p) ==
    IF StartsWith(s, p) THEN SubSeq(s, Len(p) + 1, Len(s)) ELSE s

RECURSIVE SplitFrom(_, _, _, _)
\* the fields of s from position i on, the current field starting at position start
SplitFrom(s, sep, start, i) ==
    IF i > Len(s) THEN <<SubSeq(s, start, Len(s))>>
    ELSE IF Char(s, i) = sep
         THEN <<SubSeq(s, start, i - 1)>> \o SplitFrom(s, sep, i + 1, i + 1)
         ELSE SplitFrom(s, sep, start, i + 1)

\* s.split(sep) for a single character sep
Split(s, sep) == SplitFrom(s, sep, 1, 1)

RECURSIVE Join(_, _)
\* sep.join(parts)
Join(parts, sep) ==
    IF Len(parts) = 0 THEN ""
    ELSE IF Len(parts) = 1 THEN parts[1]
    ELSE parts[1] \o sep \o Join(Tail(parts), sep)

\* seq.index(x), 0-based; only used where x occurs
IndexOf(seq, x) == (CHOOSE i \in 1..Len(seq) : seq[i] = x /\ \A j \in 1..(i - 1) : seq[j] # x) - 1

\* x in seq
InSeq(seq, x) == \E i \in 1..Len(seq) : seq[i] = x

Digits == "0123456789"

RECURSIVE Str(_)
\* str(n) for an int n >= 0
Str(n) == IF n < 10 THEN Char(Digits, n + 1) ELSE Str(n \div 10) \o Char(Digits, (n % 10) + 1)

Max3(a, b, c) ==
    LET m == IF a >= b THEN a ELSE b IN IF m >= c THEN m ELSE c

(***************************************************************************)
(* add_polysemous_glosses.py: the sense-alternative selector               *)
(***************************************************************************)

\* lemma -> all real meanings
POLYSEMOUS ==
       "capi0" :> <<"catch", "catches", "seize", "take", "capture", "to catch", "to seize", "to take">>
    @@ "faci0" :> <<"make", "makes", "do", "does", "produce", "cause", "to make", "to do">>
    @@ "move0" :> <<"move", "moves", "stir", "affect", "shake", "to move", "are moved", "is moved">>
    @@ "ag0" :> <<"come on!", "do", "drive", "act", "lead", "to do", "to drive", "to act">>
    @@ "vide0" :> <<"see", "sees", "perceive", "observe", "notice", "to see", "is seen", "to be seen">>
    @@ "audi0" :> <<"hear", "hears", "listen to", "obey", "to hear", "is heard", "to be heard", "listen!">>
    @@ "habe0" :> <<"have", "has", "hold", "possess", "consider", "to have", "to hold">>
    @@ "p0n0" :> <<"place", "put", "set", "lay down", "to place", "is placed", "to be placed">>
    @@ "d7c0" :> <<"lead", "is drawn", "draw", "guide", "bring", "to be led">>
    @@ "quaer0" :> <<"seek", "look for", "ask", "investigate", "to seek">>
    @@ "voc0" :> <<"call", "summon", "name", "invite", "to call", "to be called">>
    @@ "port0" :> <<"carry", "bring", "convey", "transport", "to carry", "is carried", "to be carried">>
    @@ "em0" :> <<"buy", "purchase", "acquire", "to buy", "to be bought">>
    @@ "curr0" :> <<"run", "hasten", "rush", "race", "to run">>
    @@ "cad0" :> <<"fall", "drop", "collapse", "perish", "to fall">>
    @@ "aspici0" :> <<"watch", "look at", "observe", "behold", "to look at">>
    @@ "ed0" :> <<"eat", "consume", "devour", "to eat", "to be eaten">>
    @@ "can0" :> <<"sing", "chant", "recite", "play (music)", "to sing">>
    @@ "occult0" :> <<"hide", "conceal", "cover", "keep secret", "are hidden">>
    @@ "sustine0" :> <<"support", "hold up", "endure", "bear", "to support">>
    @@ "intr0" :> <<"enter", "go into", "penetrate", "begin">>
    @@ "time0" :> <<"fear", "dread", "be afraid of", "worry about", "to fear">>
    @@ "reperi0" :> <<"find", "discover", "learn", "obtain", "to find", "to be found">>
    @@ "aperi0" :> <<"open", "uncover", "reveal", "disclose", "to open", "to be opened">>
    @@ "tene0" :> <<"hold", "keep", "grasp", "restrain", "to hold", "to be held">>
    @@ "iube0" :> <<"order", "command", "bid", "direct", "to order">>
    @@ "v1v0" :> <<"live", "dwell", "survive", "endure", "to live">>
    @@ "veni0" :> <<"come", "arrive", "approach", "come!">>
    @@ "exe0" :> <<"go out", "leave", "depart", "emerge">>
    @@ "accurr0" :> <<"run up", "hurry to", "rush to", "to run up">>
    @@ "r1de0" :> <<"laugh", "smile", "mock", "to laugh">>
    @@ "l4tr0" :> <<"bark", "howl", "bay", "snarl">>
    @@ "cl4m0" :> <<"shout", "cry out", "proclaim", "call out">>
    @@ "interrog0" :> <<"ask", "question", "inquire", "examine">>
    @@ "ascend0" :> <<"climb", "go up", "mount", "ascend", "to climb">>
    @@ "l7d0" :> <<"play", "to play", "sport", "mock", "trick">>

\* lemmas never annotated
SKIP_LEMMAS == {"sum", "possum", "sp1r0", "nat0", "ambul0", "vol0", "numer0"}

\* minimum number of alternatives to show
MIN_ALTS == 2

\* maximum number of alternatives to show
MAX_ALTS == 4

normalize_no_suffix(g) ==
    LET g1 == Strip(RStripCh(Strip(Lower(g)), "!"))
    IN  RemovePrefix(RemovePrefix(g1, "to "), "to be ")

\* normalize(g): a gloss as compared for duplicates
normalize(g) ==
    LET g1 == Strip(RStripCh(Strip(Lower(g)), "!"))
        g2 == RemovePrefix(RemovePrefix(g1, "to "), "to be ")
    IN  IF EndsWith(g2, "es") THEN SubSeq(g2, 1, Len(g2) - 2)
        ELSE IF EndsWith(g2, "s") THEN SubSeq(g2, 1, Len(g2) - 1)
        ELSE g2

\* the infinitive flag of a gloss
IsInfinitive(g) == StartsWith(Lower(g), "to ")

\* the passive flag of a gloss
IsPassive(g) == Contains(Lower(g), "is ") \/ Contains(Lower(g), "are ")

KeepMeaning_no_passive(m, seen_norms, current_gloss) ==
    /\ normalize(m) \notin seen_norms
    /\ IsInfinitive(current_gloss) = IsInfinitive(m)

\* one meaning of the loop of pick_alternatives reaches alts.append(m)
KeepMeaning(m, seen_norms, current_gloss) ==
    /\ normalize(m) \notin seen_norms
    /\ IsInfinitive(current_gloss) = IsInfinitive(m)
    /\ IsPassive(current_gloss) = IsPassive(m)

RECURSIVE CollectAlts(_, _, _, _, _)
\* the loop over meanings[i..], given seen_norms and alts so far
CollectAlts(meanings, i, seen_norms, alts, current_gloss) ==
    IF i > Len(meanings) THEN alts
    ELSE IF KeepMeaning(meanings[i], seen_norms, current_gloss)
         THEN CollectAlts(meanings, i + 1, seen_norms \cup {normalize(meanings[i])},
                          Append(alts, meanings[i]), current_gloss)
         ELSE CollectAlts(meanings, i + 1, seen_norms, alts, current_gloss)

RECURSIVE InsertByLen_unstable(_, _)
InsertByLen_unstable(x, sorted) ==
    IF sorted = <<>> THEN <<x>>
    ELSE IF Len(Head(sorted)) < Len(x)
         THEN <<Head(sorted)>> \o InsertByLen_unstable(x, Tail(sorted))
    ELSE <<x>> \o sorted

RECURSIVE InsertByLen(_, _)
\* x put into a length-sorted list after every entry that is not longer
InsertByLen(x, sorted) ==
    IF sorted = <<>> THEN <<x>>
    ELSE IF Len(Head(sorted)) <= Len(x) THEN <<Head(sorted)>> \o InsertByLen(x, Tail(sorted))
    ELSE <<x>> \o sorted

RECURSIVE SortByLenFrom(_, _, _)
\* the entries seq[i..] inserted one by one into sorted
SortByLenFrom(seq, i, sorted) ==
    IF i > Len(seq) THEN sorted
    ELSE SortByLenFrom(seq, i + 1, InsertByLen(seq[i], sorted))

SortByLen_unsorted(seq) == seq

\* alts.sort(key=len): stable, ascending
SortByLen(seq) == SortByLenFrom(seq, 1, <<>>)

\* seq[:n]
Take(seq, n) == SubSeq(seq, 1, IF Len(seq) < n THEN Len(seq) ELSE n)

pick_from_table_first(skip_lemmas, lemma, current_gloss) ==
    LET meanings == IF lemma \in DOMAIN POLYSEMOUS THEN POLYSEMOUS[lemma] ELSE <<>>
    IN  IF meanings = <<>> THEN <<>>
        ELSE LET alts == CollectAlts(meanings, 1, {normalize(current_gloss)},
                                     <<>>, current_gloss)
             IN  IF Len(alts) < MIN_ALTS THEN <<>>
                 ELSE Take(SortByLen(alts), MAX_ALTS)

\* the body of pick_alternatives, the skip-set it reads as a parameter
pick_from(skip_lemmas, lemma, current_gloss) ==
    IF lemma \in skip_lemmas THEN <<>>
    ELSE LET meanings == IF lemma \in DOMAIN POLYSEMOUS THEN POLYSEMOUS[lemma] ELSE <<>>
         IN  IF meanings = <<>> THEN <<>>
             ELSE LET alts == CollectAlts(meanings, 1, {normalize(current_gloss)},
                                          <<>>, current_gloss)
                  IN  IF Len(alts) < MIN_ALTS THEN <<>>
                      ELSE Take(SortByLen(alts), MAX_ALTS)

\* pick_alternatives(lemma, current_gloss)
pick_alternatives(lemma, current_gloss) == pick_from(SKIP_LEMMAS, lemma, current_gloss)

(***************************************************************************)
(* add_polysemous_glosses.py: the row codec and process_toon               *)
(***************************************************************************)

RECURSIVE ParseCsvFrom(_, _, _, _)
\* the loop of parse_csv from character i on
ParseCsvFrom(line, i, current, in_quotes) ==
    IF i > Len(line) THEN <<current>>
    ELSE LET ch == Char(line, i)
         IN  IF ch = "\"" THEN ParseCsvFrom(line, i + 1, current \o ch, ~in_quotes)
             ELSE IF ch = "," /\ ~in_quotes
                  THEN <<current>> \o ParseCsvFrom(line, i + 1, "", in_quotes)
                  ELSE ParseCsvFrom(line, i + 1, current \o ch, in_quotes)

RECURSIVE Unquoted(_)
Unquoted(s) ==
    IF s = "" THEN ""
    ELSE (IF Head(s) = "\"" THEN "" ELSE SubSeq(s, 1, 1)) \o Unquoted(Tail(s))

parse_csv_unquoting(line) ==
    LET values == ParseCsvFrom(line, 1, "", FALSE)
    IN  [n \in 1..Len(values) |-> Unquoted(values[n])]

\* parse_csv(line): the fields of a row, commas inside double quotes kept
parse_csv(line) == ParseCsvFrom(line, 1, "", FALSE)

\* the position of the first "}" after position i, or 0
FirstClose(s, i) ==
    IF \E j \in (i + 1)..Len(s) : Char(s, j) = "}"
    THEN CHOOSE j \in (i + 1)..Len(s) :
            Char(s, j) = "}" /\ \A k \in (i + 1)..(j - 1) : Char(s, k) # "}"
    ELSE 0

\* the positions where re.search(r'\{([^}]+)\}', header) can match
BraceStarts(header) ==
    {i \in 1..Len(header) : Char(header, i) = "{" /\ FirstClose(header, i) >= i + 2}

\* the header has a brace-delimited field list
HasFieldList(header) == BraceStarts(header) # {}

\* m.group(1).split(","), m the leftmost match
HeaderFields(header) ==
    LET i == CHOOSE i \in BraceStarts(header) : \A k \in BraceStarts(header) : i <= k
    IN  Split(SubSeq(header, i + 1, FirstClose(header, i) - 1), ",")

\* process_toon gets past its early returns and reaches the loop over the rows
Processable(toon_str) ==
    /\ toon_str # ""
    /\ Len(Split(toon_str, "\n")) >= 2
    /\ HasFieldList(Split(toon_str, "\n")[1])
    /\ LET fields == HeaderFields(Split(toon_str, "\n")[1])
       IN  InSeq(fields, "t") /\ InSeq(fields, "g") /\ InSeq(fields, "l")

\* the row is long enough to hold its t, g and l fields
LongEnough(values, fields) ==
    Len(values) > Max3(IndexOf(fields, "t"), IndexOf(fields, "g"), IndexOf(fields, "l"))

\* pos: the row's p field, "" when the header has none or the row is too short
RowPos(values, fields) ==
    IF InSeq(fields, "p") /\ IndexOf(fields, "p") < Len(values)
    THEN values[IndexOf(fields, "p") + 1]
    ELSE ""

\* lemma: the row's l field, its text when that is empty
RowLemma(values, fields) ==
    IF values[IndexOf(fields, "l") + 1] # ""
    THEN values[IndexOf(fields, "l") + 1]
    ELSE values[IndexOf(fields, "t") + 1]

Candidate_regloss(line, fields) ==
    /\ Strip(line) # ""
    /\ LET values == parse_csv(line)
       IN  /\ LongEnough(values, fields)
           /\ LET text  == values[IndexOf(fields, "t") + 1]
                  gloss == values[IndexOf(fields, "g") + 1]
              IN  /\ gloss # ""
                  /\ Strip(text) # ""
                  /\ Len(Strip(text)) > 1
                  /\ RowPos(values, fields) \notin {"", "conj", "prep", "num"}

Candidate_any_pos(line, fields) ==
    /\ Strip(line) # ""
    /\ LET values == parse_csv(line)
       IN  /\ LongEnough(values, fields)
           /\ LET text  == values[IndexOf(fields, "t") + 1]
                  gloss == values[IndexOf(fields, "g") + 1]
              IN  /\ gloss # ""
                  /\ ~Contains(gloss, "|")
                  /\ Strip(text) # ""
                  /\ Len(Strip(text)) > 1

\* the row passes every skip of the loop and reaches pick_alternatives
Candidate(line, fields) ==
    /\ Strip(line) # ""
    /\ LET values == parse_csv(line)
       IN  /\ LongEnough(values, fields)
           /\ LET text  == values[IndexOf(fields, "t") + 1]
                  gloss == values[IndexOf(fields, "g") + 1]
              IN  /\ gloss # ""
                  /\ ~Contains(gloss, "|")
                  /\ Strip(text) # ""
                  /\ Len(Strip(text)) > 1
                  /\ RowPos(values, fields) \notin {"", "conj", "prep", "num"}

\* alts of a candidate row
RowAlts(line, fields) ==
    LET values == parse_csv(line)
    IN  pick_alternatives(RowLemma(values, fields), values[IndexOf(fields, "g") + 1])

\* the row gets its gloss replaced (modified = True)
Enriched(line, fields) == Candidate(line, fields) /\ RowAlts(line, fields) # <<>>

\* what the loop appends to new_lines for a row
NewLine(line, fields) ==
    IF Enriched(line, fields)
    THEN LET values == parse_csv(line)
             g      == IndexOf(fields, "g") + 1
         IN  Join([values EXCEPT ![g] = values[g] \o "|" \o Join(RowAlts(line, fields), "|")],
                  ",")
    ELSE line

process_toon_headerless(toon_str) ==
    IF toon_str = "" \/ Len(Split(toon_str, "\n")) < 2 THEN toon_str
    ELSE LET lines  == Split(toon_str, "\n")
             fields == <<"t", "g", "l", "p">>
         IN  IF \E i \in 2..Len(lines) : Enriched(lines[i], fields)
             THEN Join([i \in 1..Len(lines) |->
                          IF i = 1 THEN lines[1] ELSE NewLine(lines[i], fields)], "\n")
             ELSE toon_str

\* process_toon(toon_str)
process_toon(toon_str) ==
    IF ~Processable(toon_str) THEN toon_str
    ELSE LET lines  == Split(toon_str, "\n")
             fields == HeaderFields(lines[1])
         IN  IF \E i \in 2..Len(lines) : Enriched(lines[i], fields)
             THEN Join([i \in 1..Len(lines) |->
                          IF i = 1 THEN lines[1] ELSE NewLine(lines[i], fields)], "\n")
             ELSE toon_str

(***************************************************************************)
(* add_gloss_notes.py: the polysemy detector and the note table            *)
(***************************************************************************)

\* the row at 0-based offset idx after the header
RowAt(toon_str, idx) == Split(toon_str, "\n")[idx + 2]

\* the row is one get_poly_indices reports: parts[2] holds a "|"
IsPolyRow(line) ==
    /\ Strip(line) # ""
    /\ Len(Split(line, ",")) > 2
    /\ Contains(Split(line, ",")[3], "|")

\* the keys of get_poly_indices(toon_str)
PolyIndices(toon_str) ==
    {idx \in 0..(Len(Split(toon_str, "\n")) - 2) : IsPolyRow(RowAt(toon_str, idx))}

\* get_poly_indices(toon_str)[idx] = (parts[0], glosses[0])
PolyPair(toon_str, idx) ==
    LET parts == Split(RowAt(toon_str, idx), ",")
    IN  <<parts[1], Split(parts[3], "|")[1]>>

\* (word_text, correct_gloss) -> explanation
EXPLANATIONS ==
       <<"capiunt", "catch">> :> "Predators hunting prey - they catch other animals"
    @@ <<"edunt", "eat">> :> "After catching prey, the beasts eat them"
    @@ <<"timent", "fear">> :> "Inhabitants dread lions because lions kill"
    @@ <<"capit", "catches">> :> "The eagle hunts small birds, catching them"
    @@ <<"edit", "eats">> :> "The eagle catches and then eats small birds"
    @@ <<"habet", "has">> :> "Describing body parts - a bird has two wings"
    @@ <<"habent", "have">> :> "Describing body parts that creatures possess"
    @@ <<"movet", "moves">> :> "Physical motion - flapping wings or stepping feet"
    @@ <<"moventur", "are moved">> :> "Passive: wings/feet are moved during flight or walking"
    @@ <<"portat", "carries">> :> "Mercury conveys the gods' commands to humans"
    @@ <<"emit", "buys">> :> "A merchant buys and sells goods for trade"
    @@ <<"facit", "makes">> :> "Describes earning money or producing footprints"
    @@ <<"faciunt", "make">> :> "Birds build nests - they make them in trees"
    @@ <<"aspicit", "watches">> :> "The dog gazes at birds flying among the trees"
    @@ <<"v1vunt", "live">> :> "Fish dwell in water, animals dwell on land"
    @@ <<"v1vit", "lives">> :> "A human lives as long as he breathes"
    @@ <<"intrat", "enters">> :> "Air goes into the lungs during breathing"
    @@ <<"exit", "exits">> :> "Air comes back out of the lungs"
    @@ <<"exits", "goes out">> :> "Julius leaves the house into the garden"
    @@ <<"tenet", "holds">> :> "Julia is holding the ball in her hands"
    @@ <<"quaerunt", "seek">> :> "The boys search for nests in the trees"
    @@ <<"Cape", "catch!">> :> "Julia tells Margarita to catch the thrown ball"
    @@ <<"r1det", "laughs">> :> "The happy girl laughs with joy"
    @@ <<"canit", "sings">> :> "The girl produces a melody - she sings"
    @@ <<"audiunt", "hear">> :> "The boys perceive the girl singing"
    @@ <<"Aud1", "listen!">> :> "Quintus tells Marcus to pay attention to Julia's voice"
    @@ <<"videt", "sees">> :> "Visual perception - the dog sees the bird above"
    @@ <<"vident", "see">> :> "Marcus and Julia see that Quintus is alive"
    @@ <<"capere", "to catch">> :> "The dog wants to catch the bird flying above"
    @@ <<"l4trat", "barks">> :> "The angry dog makes its natural sound"
    @@ <<"canunt", "sing">> :> "Birds produce song, unlike fish which have no voice"
    @@ <<"occultant", "hide">> :> "Small birds conceal themselves among leaves from the eagle"
    @@ <<"quaerit", "seeks">> :> "The eagle searches for food over the garden"
    @@ <<"reperit", "finds">> :> "Marcus discovers a nest in the tree"
    @@ <<"vocat", "calls">> :> "Marcus summons Quintus to come see the nest"
    @@ <<"Ven1", "come!">> :> "Marcus tells Quintus to approach the tree"
    @@ <<"Accurrit", "runs up">> :> "Quintus hurries over to where Marcus is"
    @@ <<"Age", "come on!">> :> "Marcus urges Quintus to act - climb the tree"
    @@ <<"Ascende", "climb!">> :> "Marcus tells Quintus to go up into the tree"
    @@ <<"ascendit", "climbs">> :> "Quintus physically goes up into the tree"
    @@ <<"interrogat", "asks">> :> "Marcus poses a question about the eggs in the nest"
    @@ <<"sustinet", "supports">> :> "The branch physically holds up the nest"
    @@ <<"cadit", "falls">> :> "The branch breaks and drops to the ground"
    @@ <<"R1d3tne", "does he laugh?">> :> "Asking whether Marcus laughs - no, he's terrified"
    @@ <<"movent", "move">> :> "Neither the boy nor chicks stir after the fall"
    @@ <<"currit", "runs">> :> "Marcus runs to the house in terror"
    @@ <<"cl4mat", "shouts">> :> "Marcus cries out loudly for his father"
    @@ <<"audit", "hears">> :> "Julius perceives the boy calling from the garden"
    @@ <<"accurrit", "runs up">> :> "Julia hurries to where Quintus lies"
    @@ <<"aperit", "opens">> :> "Quintus opens his eyes, showing he's alive"
    @@ <<"cadere", "to fall">> :> "Marcus sees Quintus falling from the tree"
    @@ <<"facit", "does">> :> "Asking what Marcus does - his action, not making something"
    @@ <<"exit", "goes out">> :> "Julius leaves the house to go into the garden"
    @@ <<"agere", "to do">> :> "Listed as a 3rd conjugation infinitive example"
    @@ <<"capere", "to seize">> :> "Listed as a 3rd conjugation infinitive example"
    @@ <<"v1d3", "see">> :> "Imperative: directing the reader to look at chapter XI"

\* the rows of a payload whose pair is a key of EXPLANATIONS
MatchedRows(toon_str) ==
    {idx \in PolyIndices(toon_str) : PolyPair(toon_str, idx) \in DOMAIN EXPLANATIONS}

\* the dict notes built for a block, as its set of (key, text) items
BlockNotes(toon_str) ==
    {<<Str(idx), EXPLANATIONS[PolyPair(toon_str, idx)]>> : idx \in MatchedRows(toon_str)}

(***************************************************************************)
(* The document: chapter.json on disk and in memory                        *)
(*                                                                         *)
(* A block is [type, style, toon, glossNotes]: style "" and toon "" stand  *)
(* for an absent key (block.get gives None, which the code treats like     *)
(* ""), glossNotes is <<>> for an absent key and <<items>> for a dict with *)
(* that set of (key, text) items.  hasPages and hasContent say whether the *)
(* "pages" and "content" keys exist.                                       *)
(***************************************************************************)

VARIABLES
    disk,                   \* chapter.json: [state, doc]
    script,                 \* the script of the current run
    pc,                     \* where that run is
    chapter,                \* the loaded document
    before,                 \* the document as the run loaded it
    k,                      \* the next step of the page/block traversal
    total_blocks_modified,  \* add_polysemous_glosses.py's counter
    poly_count,             \* add_polysemous_glosses.py's report
    total_notes,            \* add_gloss_notes.py's counter
    total_blocks,           \* add_gloss_notes.py's counter
    exit_code,              \* the run's exit status, -1 while it runs
    error,                  \* what ended a failed run
    altgen_done,            \* an alternative-generation run has written this file
    rerun,                  \* altgen_done as the current run found it
    disk0,                  \* chapter.json as the current run found it
    lemma,                  \* selector input
    gloss,                  \* selector input
    alts,                   \* selector output, <<>> before the call
    toon_in,                \* process_toon input
    toon_out,               \* process_toon output, "" before the call
    command,                \* extract_illustrations.py: sys.argv[1]
    image,                  \* the size of the opened image: [width, height]
    args,                   \* the other arguments of the command
    response,               \* what the vision model answered
    result,                 \* what the command returns
    item_i                  \* inline: index of the next detection

vars == <<disk, script, pc, chapter, before, k, total_blocks_modified, poly_count,
          total_notes, total_blocks, exit_code, error, altgen_done, rerun, disk0,
          lemma, gloss, alts, toon_in, toon_out,
          command, image, args, response, result, item_i>>

docVars == <<disk, script, pc, chapter, before, k, total_blocks_modified, poly_count,
             total_notes, total_blocks, exit_code, error, altgen_done, rerun, disk0>>

pickVars == <<lemma, gloss, alts>>

toonVars == <<toon_in, toon_out>>

imageVars == <<command, image, args, response, result, item_i>>

\* extract_illustrations.py is not running
NoImage ==
    /\ command = "none"
    /\ image = [width |-> 0, height |-> 0]
    /\ args = <<>>
    /\ response = <<>>
    /\ result = <<>>
    /\ item_i = 0

NoDoc == [hasPages |-> FALSE, pages |-> <<>>]

RECURSIVE EventsFrom(_, _)
\* the traversal from page p on: <<p, b>> is block b of page p, <<p, 0>> the
\* KeyError of a page without "content"
EventsFrom(doc, p) ==
    IF p > Len(doc.pages) THEN <<>>
    ELSE (IF doc.pages[p].hasContent
          THEN [b \in 1..Len(doc.pages[p].content) |-> <<p, b>>]
          ELSE << <<p, 0>> >>) \o EventsFrom(doc, p + 1)

RECURSIVE EventsFrom_lenient(_, _)
EventsFrom_lenient(doc, p) ==
    IF p > Len(doc.pages) THEN <<>>
    ELSE (IF doc.pages[p].hasContent
          THEN [b \in 1..Len(doc.pages[p].content) |-> <<p, b>>]
          ELSE <<>>) \o EventsFrom_lenient(doc, p + 1)

Events_lenient(doc) == EventsFrom_lenient(doc, 1)

\* the steps of `for page in chapter["pages"]: for block in page["content"]`;
\* <<0, 0>> is the KeyError of a document without "pages"
Events(doc) == IF doc.hasPages THEN EventsFrom(doc, 1) ELSE << <<0, 0>> >>

\* the traversal raises at this step
Raises(ev) == ev[2] = 0

BlockAt(doc, ev) == doc.pages[ev[1]].content[ev[2]]

\* the positions of the blocks of a document
Positions(doc) ==
    UNION {{<<p, b>> : b \in 1..Len(doc.pages[p].content)} :
              p \in {q \in 1..Len(doc.pages) : doc.pages[q].hasContent}}

WellFormed(doc) == doc.hasPages /\ \A p \in 1..Len(doc.pages) : doc.pages[p].hasContent

(***************************************************************************)
(* add_polysemous_glosses.py: main                                         *)
(***************************************************************************)

AltEligible_any_style(block) ==
    /\ block.type = "text"
    /\ block.toon # ""

\* the block passes the three `continue`s of main's loop
AltEligible(block) ==
    /\ block.type = "text"
    /\ block.toon # ""
    /\ block.style # "grammar-table"

\* the words_added sum raises IndexError: it reads line.split(",")[2] before it
\* tests len(line.split(",")) > 2
WordsAddedRaises(new_toon) ==
    LET lines == Split(new_toon, "\n")
    IN  \E i \in 2..Len(lines) : Len(Split(lines[i], ",")) <= 2

\* the rows main counts as polysemous in a payload
PolyLines(toon_str) ==
    LET lines == Split(toon_str, "\n")
    IN  {i \in 2..Len(lines) :
            Len(Split(lines[i], ",")) > 2 /\ Contains(Split(lines[i], ",")[3], "|")}

\* poly_count of the final document
PolyCount(doc) ==
    Cardinality(UNION {{<<pos, i>> : i \in PolyLines(BlockAt(doc, pos).toon)} :
                           pos \in {q \in Positions(doc) : BlockAt(doc, q).toon # ""}})

\* a new process starts
CanStart == pc \in {"idle", "done", "failed"}

Fail(msg) ==
    /\ pc' = "failed"
    /\ exit_code' = 1
    /\ error' = msg

\* a new process: the usage check, the existence check and json.load of main
AltStart(has_arg) ==
    /\ CanStart
    /\ script' = "altgen"
    /\ k' = 1
    /\ total_blocks_modified' = 0
    /\ poly_count' = 0
    /\ total_notes' = 0
    /\ total_blocks' = 0
    /\ IF ~has_arg THEN Fail("usage") /\ chapter' = NoDoc /\ before' = NoDoc
       ELSE IF disk.state = "absent"
       THEN Fail("not found") /\ chapter' = NoDoc /\ before' = NoDoc
       ELSE IF disk.state # "json"
       THEN Fail("JSONDecodeError") /\ chapter' = NoDoc /\ before' = NoDoc
       ELSE /\ chapter' = disk.doc
            /\ before' = disk.doc
            /\ pc' = "loop"
            /\ exit_code' = -1
            /\ error' = ""
    /\ rerun' = altgen_done
    /\ disk0' = disk
    /\ UNCHANGED <<disk, altgen_done, pickVars,
                   toonVars, imageVars>>

\* one step of main's first loop
AltBlock ==
    /\ pc = "loop" /\ script = "altgen"
    /\ k <= Len(Events(chapter))
    /\ LET ev == Events(chapter)[k]
       IN  IF Raises(ev)
           THEN Fail("KeyError") /\ UNCHANGED <<chapter, k, total_blocks_modified>>
           ELSE LET block    == BlockAt(chapter, ev)
                    new_toon == process_toon(block.toon)
                IN  IF ~AltEligible(block) \/ new_toon = block.toon
                    THEN /\ k' = k + 1
                         /\ UNCHANGED <<chapter, total_blocks_modified, pc, exit_code, error>>
                    ELSE IF WordsAddedRaises(new_toon)
                    THEN Fail("IndexError") /\ UNCHANGED <<chapter, k, total_blocks_modified>>
                    ELSE /\ chapter' = [chapter EXCEPT
                                          !.pages[ev[1]].content[ev[2]].toon = new_toon]
                         /\ total_blocks_modified' = total_blocks_modified + 1
                         /\ k' = k + 1
                         /\ UNCHANGED <<pc, exit_code, error>>
    /\ UNCHANGED <<disk, script, before, poly_count, total_notes, total_blocks,
                   altgen_done, rerun, disk0, pickVars,
                   toonVars, imageVars>>

\* main's second loop, over the final document
AltCount ==
    /\ pc = "loop" /\ script = "altgen"
    /\ k > Len(Events(chapter))
    /\ poly_count' = PolyCount(chapter)
    /\ pc' = "write"
    /\ UNCHANGED <<disk, script, chapter, before, k, total_blocks_modified, total_notes,
                   total_blocks, exit_code, error, altgen_done, rerun, disk0, pickVars,
                   toonVars, imageVars>>

\* open(chapter_path, "w"): the file is truncated
AltOpen ==
    /\ pc = "write" /\ script = "altgen"
    /\ disk' = [state |-> "empty", doc |-> NoDoc]
    /\ pc' = "dump"
    /\ UNCHANGED <<script, chapter, before, k, total_blocks_modified, poly_count,
                   total_notes, total_blocks, exit_code, error, altgen_done, rerun, disk0, pickVars,
                   toonVars, imageVars>>

\* json.dump and the report
AltDump ==
    /\ pc = "dump" /\ script = "altgen"
    /\ disk' = [state |-> "json", doc |-> chapter]
    /\ pc' = "done"
    /\ exit_code' = 0
    /\ altgen_done' = TRUE
    /\ UNCHANGED <<script, chapter, before, k, total_blocks_modified, poly_count,
                   total_notes, total_blocks, error, rerun, disk0, pickVars,
                   toonVars, imageVars>>

(***************************************************************************)
(* add_gloss_notes.py: the module-level script                             *)
(***************************************************************************)

\* the block passes the two `continue`s of the annotation loop
NotesEligible(block) ==
    /\ block.toon # ""
    /\ block.style # "grammar-table"

\* block["glossNotes"] = notes
NewGlossNotes(block) == <<BlockNotes(block.toon)>>

\* a new process: open(chapter_path) and json.load
NotesStart ==
    /\ CanStart
    /\ script' = "notes"
    /\ k' = 1
    /\ total_notes' = 0
    /\ total_blocks' = 0
    /\ total_blocks_modified' = 0
    /\ poly_count' = 0
    /\ IF disk.state = "absent"
       THEN Fail("FileNotFoundError") /\ chapter' = NoDoc /\ before' = NoDoc
       ELSE IF disk.state # "json"
       THEN Fail("JSONDecodeError") /\ chapter' = NoDoc /\ before' = NoDoc
       ELSE /\ chapter' = disk.doc
            /\ before' = disk.doc
            /\ pc' = "loop"
            /\ exit_code' = -1
            /\ error' = ""
    /\ rerun' = altgen_done
    /\ disk0' = disk
    /\ UNCHANGED <<disk, altgen_done, pickVars,
                   toonVars, imageVars>>

\* one step of the annotation loop
NotesBlock ==
    /\ pc = "loop" /\ script = "notes"
    /\ k <= Len(Events(chapter))
    /\ LET ev == Events(chapter)[k]
       IN  IF Raises(ev)
           THEN Fail("KeyError") /\ UNCHANGED <<chapter, k, total_notes, total_blocks>>
           ELSE LET block == BlockAt(chapter, ev)
                IN  IF ~NotesEligible(block) \/ BlockNotes(block.toon) = {}
                    THEN /\ k' = k + 1
                         /\ UNCHANGED <<chapter, total_notes, total_blocks, pc, exit_code,
                                        error>>
                    ELSE /\ chapter' = [chapter EXCEPT
                              !.pages[ev[1]].content[ev[2]].glossNotes = NewGlossNotes(block)]
                         /\ total_notes' = total_notes + Cardinality(BlockNotes(block.toon))
                         /\ total_blocks' = total_blocks + 1
                         /\ k' = k + 1
                         /\ UNCHANGED <<pc, exit_code, error>>
    /\ UNCHANGED <<disk, script, before, total_blocks_modified, poly_count, altgen_done,
                   rerun, disk0, pickVars,
                   toonVars, imageVars>>

\* open(chapter_path, "w"): the file is truncated
NotesOpen ==
    /\ pc = "loop" /\ script = "notes"
    /\ k > Len(Events(chapter))
    /\ disk' = [state |-> "empty", doc |-> NoDoc]
    /\ pc' = "dump"
    /\ UNCHANGED <<script, chapter, before, k, total_blocks_modified, poly_count,
                   total_notes, total_blocks, exit_code, error, altgen_done, rerun, disk0, pickVars,
                   toonVars, imageVars>>

\* json.dump, the report and the coverage count
NotesDump ==
    /\ pc = "dump" /\ script = "notes"
    /\ disk' = [state |-> "json", doc |-> chapter]
    /\ pc' = "done"
    /\ exit_code' = 0
    /\ UNCHANGED <<script, chapter, before, k, total_blocks_modified, poly_count,
                   total_notes, total_blocks, error, altgen_done, rerun, disk0, pickVars,
                   toonVars, imageVars>>

(***************************************************************************)
(* The selector called on its own                                          *)
(***************************************************************************)

\* pick_alternatives(lemma, gloss) is called
Pick ==
    /\ pc = "pick"
    /\ alts' = pick_alternatives(lemma, gloss)
    /\ pc' = "picked"
    /\ UNCHANGED <<disk, script, chapter, before, k, total_blocks_modified, poly_count,
                   total_notes, total_blocks, exit_code, error, altgen_done, rerun, disk0,
                   lemma, gloss, toonVars, imageVars>>

\* process_toon(toon_str) is called
Process ==
    /\ pc = "toon"
    /\ toon_out' = process_toon(toon_in)
    /\ pc' = "processed"
    /\ UNCHANGED <<disk, script, chapter, before, k, total_blocks_modified, poly_count,
                   total_notes, total_blocks, exit_code, error, altgen_done, rerun, disk0,
                   pickVars, toon_in, imageVars>>

(***************************************************************************)
(* extract_illustrations.py                                                *)
(*                                                                         *)
(* An image is its size.  None is <<>> and a value v is <<v>>.  A response *)
(* of the vision model is [kind, value]: kind "raise" is an exception or   *)
(* timeout of the call, "not_json" a text json.loads rejects, the other    *)
(* kinds say what the parsed JSON is.                                      *)
(***************************************************************************)

Min2(a, b) == IF a <= b THEN a ELSE b

Max2(a, b) == IF a >= b THEN a ELSE b

\* int(a / b) for b > 0: truncation toward zero
IntDiv(a, b) == IF a >= 0 THEN a \div b ELSE -((-a) \div b)

\* the run ends with an uncaught exception
Crash(msg) ==
    /\ pc' = "failed"
    /\ exit_code' = 1
    /\ error' = msg

\* the run returns
Return ==
    /\ pc' = "done"
    /\ exit_code' = 0
    /\ error' = ""

\* detections per response
MaxItems == 2

\* what the vision model can answer to the margin prompt: a failure of the call,
\* a text that is not JSON, JSON that is not an object, an object without margin_x,
\* with a margin_x that is not a number, or with a margin_x in 0..1000
MarginResponses ==
    {[kind |-> kd, value |-> <<>>] :
        kd \in {"raise", "not_json", "not_object", "no_margin_x", "bad_margin_x"}}
    \cup {[kind |-> "number", value |-> <<n>>] : n \in {0, 1, 250, 280, 720, 1000}}

\* one element of the list the vision model answers to the inline prompt: an object
\* with a box_2d of four numbers, of three numbers, of values that are not numbers,
\* an object without box_2d, a number and a string
Items ==
    {[kind |-> "object", has_box |-> TRUE, numeric |-> TRUE, box_2d |-> b] :
        b \in {<<100, 200, 300, 400>>, <<0, 0, 1000, 1000>>, <<100, 50, 300, 990>>,
               <<300, 400, 100, 200>>, <<100, 200, 300>>}}
    \cup {[kind |-> "object", has_box |-> TRUE, numeric |-> FALSE, box_2d |-> <<>>],
          [kind |-> "object", has_box |-> FALSE, numeric |-> FALSE, box_2d |-> <<>>],
          [kind |-> "number", has_box |-> FALSE, numeric |-> FALSE, box_2d |-> <<>>],
          [kind |-> "string", has_box |-> FALSE, numeric |-> FALSE, box_2d |-> <<>>]}

RECURSIVE ItemLists(_)
\* the lists of n detections
ItemLists(n) ==
    IF n = 0 THEN {<<>>}
    ELSE {Append(items, it) : items \in ItemLists(n - 1), it \in Items}

\* what the vision model can answer to the inline prompt
InlineResponses ==
    {[kind |-> kd, value |-> <<>>] : kd \in {"raise", "not_json", "not_list"}}
    \cup {[kind |-> "list", value |-> items] :
            items \in UNION {ItemLists(n) : n \in 0..MaxItems}}

crop_box_unordered(width, height, x1, y1, x2, y2) ==
    [x1 |-> Max2(0, Min2(x1, width)), y1 |-> Max2(0, Min2(y1, height)),
     x2 |-> Max2(0, Min2(x2, width)), y2 |-> Max2(0, Min2(y2, height))]

\* crop_region: the crop box (x1, y1, x2, y2) after "Ensure bounds are valid"
crop_box(width, height, x1, y1, x2, y2) ==
    LET nx1 == Max2(0, Min2(x1, width))
        ny1 == Max2(0, Min2(y1, height))
        nx2 == Max2(nx1, Min2(x2, width))
        ny2 == Max2(ny1, Min2(y2, height))
    IN  [x1 |-> nx1, y1 |-> ny1, x2 |-> nx2, y2 |-> ny2]

\* the box holds no pixel
EmptyBox(box) == box.x2 <= box.x1 \/ box.y2 <= box.y1

\* crop_region(image_path, output_path, x1, y1, x2, y2); whether PIL saves an
\* image without pixels or raises is left open
CropRegion ==
    /\ pc = "call" /\ command = "crop"
    /\ LET box == crop_box(image.width, image.height, args.x1, args.y1, args.x2, args.y2)
       IN  /\ result' = [file |-> "out", width |-> box.x2 - box.x1,
                         height |-> box.y2 - box.y1, crop_box |-> box]
           /\ \/ Return
              \/ EmptyBox(box) /\ Crash("save")
    /\ UNCHANGED <<disk, script, chapter, before, k, total_blocks_modified, poly_count,
                   total_notes, total_blocks, altgen_done, rerun, disk0, pickVars, toonVars,
                   command, image, args, response, item_i>>

\* fallback ratio of the margin column
DEFAULT_MARGIN_RATIO_PERCENT == 25

\* detect_margin_boundary: the pixel boundary, None when the try block raises
detect_margin_boundary(resp, side, width) ==
    IF resp.kind \in {"raise", "not_json", "not_object", "bad_margin_x"} THEN <<>>
    ELSE LET margin_x_normalized ==
                 IF resp.kind = "no_margin_x"
                 THEN (IF side = "left" THEN 250 ELSE 750)
                 ELSE resp.value[1]
         IN  <<IntDiv(margin_x_normalized * width, 1000)>>

\* crop_margin_strip: margin_x after the fallback
margin_boundary(detected, side, width) ==
    IF detected = <<>>
    THEN (IF side = "left"
          THEN IntDiv(width * DEFAULT_MARGIN_RATIO_PERCENT, 100)
          ELSE IntDiv(width * (100 - DEFAULT_MARGIN_RATIO_PERCENT), 100))
    ELSE detected[1]

\* crop_margin_strip: detection_method
detection_method(detected) ==
    IF detected # <<>> /\ detected[1] # 0 THEN "gemini" ELSE "fallback"

\* crop_margin_strip up to the end of the detection: the vision model answers
MarginDetect ==
    /\ pc = "call" /\ command = "margin"
    /\ \E resp \in MarginResponses :
          /\ response' = resp
          /\ result' = detect_margin_boundary(resp, args.side, image.width)
    /\ pc' = "crop"
    /\ UNCHANGED <<disk, script, chapter, before, k, total_blocks_modified, poly_count,
                   total_notes, total_blocks, exit_code, error, altgen_done, rerun, disk0,
                   pickVars, toonVars, command, image, args, item_i>>

\* crop_margin_strip from the fallback on: crop, save, return
MarginCrop ==
    /\ pc = "crop" /\ command = "margin"
    /\ LET margin_x == margin_boundary(result, args.side, image.width)
           box      == IF args.side = "left"
                       THEN [x1 |-> 0, y1 |-> 0, x2 |-> margin_x, y2 |-> image.height]
                       ELSE [x1 |-> margin_x, y1 |-> 0, x2 |-> image.width,
                             y2 |-> image.height]
       IN  /\ result' = [file |-> "out", side |-> args.side, margin_x |-> margin_x,
                         detection_method |-> detection_method(result)]
           /\ \/ Return
              \/ EmptyBox(box) /\ Crash("save")
    /\ UNCHANGED <<disk, script, chapter, before, k, total_blocks_modified, poly_count,
                   total_notes, total_blocks, altgen_done, rerun, disk0, pickVars, toonVars,
                   command, image, args, response, item_i>>

\* extract_inline_illustrations: left_boundary
left_boundary(exclude_left, width) ==
    IF exclude_left # <<>> /\ exclude_left[1] > 0
    THEN IntDiv(exclude_left[1] * 1000, width)
    ELSE 0

\* extract_inline_illustrations: right_boundary
right_boundary(exclude_right, width) ==
    IF exclude_right # <<>> /\ exclude_right[1] < width
    THEN IntDiv(exclude_right[1] * 1000, width)
    ELSE 1000

\* the detection raises in the loop body: `"box_2d" not in item` on a number,
\* the unpacking of a box_2d that has not four elements, the comparison of an
\* element that is not a number
ItemRaises(item) ==
    \/ item.kind = "number"
    \/ item.kind = "object" /\ item.has_box /\ (~item.numeric \/ Len(item.box_2d) # 4)

\* the detection is skipped: no box_2d, or a box in a margin
ItemSkipped(item, left, right) ==
    \/ ~item.has_box
    \/ item.box_2d[2] < left
    \/ item.box_2d[4] > right

\* the pixel box of a detection, after "Ensure valid bounds"
pixel_box(box_2d, width, height) ==
    LET px_x0 == Max2(0, Min2(IntDiv(box_2d[2] * width, 1000), width - 1))
        px_y0 == Max2(0, Min2(IntDiv(box_2d[1] * height, 1000), height - 1))
        px_x1 == Max2(px_x0 + 1, Min2(IntDiv(box_2d[4] * width, 1000), width))
        px_y1 == Max2(px_y0 + 1, Min2(IntDiv(box_2d[3] * height, 1000), height))
    IN  [x |-> px_x0, y |-> px_y0, w |-> px_x1 - px_x0, h |-> px_y1 - px_y0]

\* extract_inline_illustrations up to the end of the stream: the vision model
\* answers; an exception of the call or of the stream is not caught
InlineCall ==
    /\ pc = "call" /\ command = "inline"
    /\ \E resp \in InlineResponses :
          /\ response' = resp
          /\ IF resp.kind = "raise"
             THEN Crash("collaborator")
             ELSE pc' = "parse" /\ UNCHANGED <<exit_code, error>>
    /\ UNCHANGED <<disk, script, chapter, before, k, total_blocks_modified, poly_count,
                   total_notes, total_blocks, altgen_done, rerun, disk0, pickVars, toonVars,
                   command, image, args, result, item_i>>

\* json.loads(text) and the isinstance test
InlineParse ==
    /\ pc = "parse" /\ command = "inline"
    /\ result' = <<>>
    /\ IF response.kind = "list"
       THEN pc' = "items" /\ item_i' = 1 /\ UNCHANGED <<exit_code, error>>
       ELSE Return /\ UNCHANGED item_i
    /\ UNCHANGED <<disk, script, chapter, before, k, total_blocks_modified, poly_count,
                   total_notes, total_blocks, altgen_done, rerun, disk0, pickVars, toonVars,
                   command, image, args, response>>

\* one turn of `for i, item in enumerate(detections)`
InlineItem ==
    /\ pc = "items" /\ command = "inline"
    /\ item_i <= Len(response.value)
    /\ LET item == response.value[item_i]
       IN  IF ItemRaises(item)
           THEN Crash("item") /\ UNCHANGED <<result, item_i>>
           ELSE /\ item_i' = item_i + 1
                /\ UNCHANGED <<pc, exit_code, error>>
                /\ IF ItemSkipped(item, left_boundary(args.exclude_left, image.width),
                                  right_boundary(args.exclude_right, image.width))
                   THEN UNCHANGED result
                   ELSE result' = Append(result,
                            [index |-> Len(result),
                             box   |-> pixel_box(item.box_2d, image.width, image.height)])
    /\ UNCHANGED <<disk, script, chapter, before, k, total_blocks_modified, poly_count,
                   total_notes, total_blocks, altgen_done, rerun, disk0, pickVars, toonVars,
                   command, image, args, response>>

\* return results
InlineReturn ==
    /\ pc = "items" /\ command = "inline"
    /\ item_i > Len(response.value)
    /\ Return
    /\ UNCHANGED <<disk, script, chapter, before, k, total_blocks_modified, poly_count,
                   total_notes, total_blocks, altgen_done, rerun, disk0, pickVars, toonVars,
                   command, image, args, response, result, item_i>>

(***************************************************************************)
(* Inputs                                                                  *)
(***************************************************************************)

\* rows per payload
MaxRows == 2

Headers == {"w{t,g,l,p}", "w{t,x,g,l,p}", "w{t,g}", "w"}

RowPool ==
    { "canit,sings,can0,v",
      "capit,n,catches,capi0,v",
      "capit,n,catches|seize|take,capi0,v",
      "et,and",
      "" }

RECURSIVE RowLists(_)
\* the lists of n rows
RowLists(n) ==
    IF n = 0 THEN {<<>>}
    ELSE {Append(rows, r) : rows \in RowLists(n - 1), r \in RowPool}

Payloads ==
    {Join(<<h>> \o rows, "\n") : h \in Headers, rows \in UNION {RowLists(n) : n \in 0..MaxRows}}

OldNotes == {<<"1", "an earlier note">>}

Blocks ==
    {[type |-> ts[1], style |-> ts[2], toon |-> toon, glossNotes |-> notes] :
        ts \in {<<"text", "">>, <<"text", "grammar-table">>, <<"image", "">>},
        toon \in Payloads \cup {""},
        notes \in {<<>>, <<OldNotes>>}}

\* a text block that alternative-generation enriches
Companion ==
    [type |-> "text", style |-> "", toon |-> "w{t,g,l,p}\ncanit,sings,can0,v",
     glossNotes |-> <<>>]

Page(blocks) == [hasContent |-> TRUE, content |-> blocks]

Doc(pages) == [hasPages |-> TRUE, pages |-> pages]

\* a page without the "content" key
NoContentPage == [hasContent |-> FALSE, content |-> <<>>]

\* a document without "pages", one without pages, and each block of Blocks alone,
\* after Companion in one page, and followed by a page without "content"
Docs ==
    {NoDoc, Doc(<<>>)}
    \cup {Doc(<<Page(<<b>>)>>) : b \in Blocks}
    \cup {Doc(<<Page(<<Companion, b>>)>>) : b \in Blocks}
    \cup {Doc(<<Page(<<b>>), NoContentPage>>) : b \in Blocks}

Disks ==
    {[state |-> "absent", doc |-> NoDoc], [state |-> "malformed", doc |-> NoDoc]}
    \cup {[state |-> "json", doc |-> d] : d \in Docs}

\* headers of the payloads process_toon is called on
ToonHeaders == {"w{t,g,l,p}", "w{t,g,l}", "w{t,x,g,l,p}", "w{t,g}"}

\* rows of those payloads: content words, function words, rows without
\* part-of-speech, with an empty or enriched gloss, with a blank or one-letter
\* headword, with an empty lemma, with quoted commas, a short row and a blank line
ToonRows ==
    { "canit,sings,can0,v",
      "capit,n,catches,capi0,v",
      "et,and,et,conj",
      "in,in,in,prep",
      "duo,two,duo,num",
      "canit,sings,can0,",
      "canit,sings,can0",
      "canit,,can0,v",
      "canit,sings|chant|recite,can0,v",
      " ,sings,can0,v",
      "a,sings,can0,v",
      "can0,sings,,v",
      "\"canit, et\",sings,can0,v",
      "canit,\"sings, loud\",can0,v",
      "et,and",
      "" }

RECURSIVE ToonRowLists(_)
\* the lists of n rows
ToonRowLists(n) ==
    IF n = 0 THEN {<<>>}
    ELSE {Append(rows, r) : rows \in ToonRowLists(n - 1), r \in ToonRows}

ToonPool ==
    {Join(<<h>> \o rows, "\n") :
        h \in ToonHeaders, rows \in UNION {ToonRowLists(n) : n \in 0..MaxRows}}
    \cup {"", "w{t,g,l,p}"}

Lemmas == DOMAIN POLYSEMOUS \cup SKIP_LEMMAS \cup {"et"}

TableSenses == UNION {{POLYSEMOUS[l][i] : i \in 1..Len(POLYSEMOUS[l])} : l \in DOMAIN POLYSEMOUS}

Glosses ==
    TableSenses
    \cup {key[2] : key \in DOMAIN EXPLANATIONS}
    \cup {"Sings!", "TO SEE", " to sing ", "Is Seen", "and", ""}

(***************************************************************************)
(* Specifications                                                          *)
(***************************************************************************)

Init ==
    /\ disk \in Disks
    /\ script = "none"
    /\ pc = "idle"
    /\ chapter = NoDoc
    /\ before = NoDoc
    /\ k = 1
    /\ total_blocks_modified = 0
    /\ poly_count = 0
    /\ total_notes = 0
    /\ total_blocks = 0
    /\ exit_code = -1
    /\ error = ""
    /\ altgen_done = FALSE
    /\ rerun = FALSE
    /\ disk0 = disk
    /\ lemma = ""
    /\ gloss = ""
    /\ alts = <<>>
    /\ toon_in = ""
    /\ toon_out = ""
    /\ NoImage

Next ==
    \/ \E has_arg \in BOOLEAN : AltStart(has_arg)
    \/ AltBlock
    \/ AltCount
    \/ AltOpen
    \/ AltDump
    \/ NotesStart
    \/ NotesBlock
    \/ NotesOpen
    \/ NotesDump

Spec == Init /\ [][Next]_vars

InitPick ==
    /\ lemma \in Lemmas
    /\ gloss \in Glosses
    /\ alts = <<>>
    /\ pc = "pick"
    /\ disk = [state |-> "absent", doc |-> NoDoc]
    /\ script = "none"
    /\ chapter = NoDoc
    /\ before = NoDoc
    /\ k = 1
    /\ total_blocks_modified = 0
    /\ poly_count = 0
    /\ total_notes = 0
    /\ total_blocks = 0
    /\ exit_code = -1
    /\ error = ""
    /\ altgen_done = FALSE
    /\ rerun = FALSE
    /\ disk0 = disk
    /\ toon_in = ""
    /\ toon_out = ""
    /\ NoImage

NextPick == Pick

SpecPick == InitPick /\ [][NextPick]_vars

\* no run of a script is under way and the file is absent
NoRun ==
    /\ disk = [state |-> "absent", doc |-> NoDoc]
    /\ disk0 = disk
    /\ script = "none"
    /\ chapter = NoDoc
    /\ before = NoDoc
    /\ k = 1
    /\ total_blocks_modified = 0
    /\ poly_count = 0
    /\ total_notes = 0
    /\ total_blocks = 0
    /\ exit_code = -1
    /\ error = ""
    /\ altgen_done = FALSE
    /\ rerun = FALSE

InitToon ==
    /\ toon_in \in ToonPool
    /\ toon_out = ""
    /\ NoImage
    /\ pc = "toon"
    /\ NoRun
    /\ lemma = ""
    /\ gloss = ""
    /\ alts = <<>>

NextToon == Process

SpecToon == InitToon /\ [][NextToon]_vars

\* largest width, height and coordinate offset of the crop command
MaxDim == 2

InitCrop ==
    /\ command = "crop"
    /\ image \in [width : 0..MaxDim, height : 0..MaxDim]
    /\ args \in [x1 : -1..(MaxDim + 1), y1 : -1..(MaxDim + 1),
                 x2 : -1..(MaxDim + 1), y2 : -1..(MaxDim + 1)]
    /\ response = <<>>
    /\ result = <<>>
    /\ item_i = 0
    /\ pc = "call"
    /\ NoRun
    /\ lemma = "" /\ gloss = "" /\ alts = <<>>
    /\ toon_in = "" /\ toon_out = ""

NextCrop == CropRegion

SpecCrop == InitCrop /\ [][NextCrop]_vars

\* the page images of the commands that ask the vision model
Pages == {[width |-> 800, height |-> 600], [width |-> 1000, height |-> 1500]}

InitVision ==
    /\ command \in {"margin", "inline"}
    /\ image \in Pages
    /\ IF command = "margin"
       THEN args \in [side : {"left", "right"}]
       ELSE args \in [exclude_left : {<<>>, <<100>>}, exclude_right : {<<>>, <<700>>}]
    /\ response = <<>>
    /\ result = <<>>
    /\ item_i = 0
    /\ pc = "call"
    /\ NoRun
    /\ lemma = "" /\ gloss = "" /\ alts = <<>>
    /\ toon_in = "" /\ toon_out = ""

NextVision ==
    \/ MarginDetect
    \/ MarginCrop
    \/ InlineCall
    \/ InlineParse
    \/ InlineItem
    \/ InlineReturn

SpecVision == InitVision /\ [][NextVision]_vars

(***************************************************************************)
(* Claims                                                                  *)
(***************************************************************************)

\* the entries of a list
Range(seq) == {seq[i] : i \in 1..Len(seq)}

\* the run has loaded the document
Loaded == pc \in {"loop", "write", "dump", "done"} \/ (pc = "failed" /\ disk0.state = "json"
                                                          /\ error \in {"KeyError", "IndexError"})

\* C1: for a lemma of the table that is not skipped, and any correct sense,
\* pick_alternatives returns a list without the correct sense, without two entries
\* of the same normalized form or one of the normalized form of the correct sense,
\* of at most 4 entries, each with the infinitive flag and the passive flag of the
\* correct sense.
C1_PickContract ==
    (pc = "picked" /\ lemma \in DOMAIN POLYSEMOUS /\ lemma \notin SKIP_LEMMAS) =>
        /\ gloss \notin Range(alts)
        /\ \A i, j \in 1..Len(alts) : i # j => normalize(alts[i]) # normalize(alts[j])
        /\ \A i \in 1..Len(alts) : normalize(alts[i]) # normalize(gloss)
        /\ Len(alts) <= 4
        /\ \A i \in 1..Len(alts) :
              /\ StartsWith(Lower(alts[i]), "to ") = StartsWith(Lower(gloss), "to ")
              /\ (Contains(Lower(alts[i]), "is ") \/ Contains(Lower(alts[i]), "are "))
                 = (Contains(Lower(gloss), "is ") \/ Contains(Lower(gloss), "are "))

\* a call that filtered by form, dropped a duplicate of the correct sense and cut
\* five survivors down to four
C1_Witness ==
    /\ pc = "picked"
    /\ lemma = "ag0"
    /\ gloss = "does"
    /\ alts = <<"act", "lead", "drive", "come on!">>

\* the payloads of the blocks of a document
Toons(doc) == {BlockAt(doc, pos).toon : pos \in Positions(doc)}

\* C2: alternative-generation is idempotent: process_toon applied to its own result
\* changes nothing, and a run over a file that an alternative-generation run has
\* written modifies no block and writes the document it read.
C2_Idempotent ==
    /\ (pc = "idle" /\ disk.state = "json") =>
          \A p \in Toons(disk.doc) : process_toon(process_toon(p)) = process_toon(p)
    /\ (script = "altgen" /\ rerun /\ error # "usage") =>
          /\ total_blocks_modified = 0
          /\ pc # "failed"
          /\ chapter = before
          /\ pc = "done" => disk.doc = before

\* a second alternative-generation run has ended over a block the first one enriched
C2_Witness ==
    /\ script = "altgen" /\ rerun /\ pc = "done"
    /\ \E pos \in Positions(disk.doc) :
          /\ AltEligible(BlockAt(disk.doc, pos))
          /\ Contains(BlockAt(disk.doc, pos).toon, "canit,sings|chant")

\* the rows of a payload, header excluded
Rows(toon_str) == Tail(Split(toon_str, "\n"))

\* the block is one alternative-generation processes under header {t,g,l,p}
TglpBlock(block) ==
    /\ AltEligible(block)
    /\ Split(block.toon, "\n")[1] = "w{t,g,l,p}"

\* C3 as claimed: the row canit,sings,can0,v under {t,g,l,p} comes out with the
\* gloss sings|sing|chant|recite.
C3_AsClaimed ==
    (script = "altgen" /\ pc = "done") =>
        \A pos \in Positions(before) :
            TglpBlock(BlockAt(before, pos)) =>
                \A i \in 1..Len(Rows(BlockAt(before, pos).toon)) :
                    Rows(BlockAt(before, pos).toon)[i] = "canit,sings,can0,v" =>
                        Rows(BlockAt(disk.doc, pos).toon)[i]
                            = "canit,sings|sing|chant|recite,can0,v"

\* C3, amended: the row canit,sings,can0,v under {t,g,l,p} comes out with the gloss
\* sings|chant|recite|play (music): "sing" has the normalized form of "sings" and is
\* dropped, "to sing" is an infinitive.
C3_CanitRow ==
    (script = "altgen" /\ pc = "done") =>
        \A pos \in Positions(before) :
            TglpBlock(BlockAt(before, pos)) =>
                \A i \in 1..Len(Rows(BlockAt(before, pos).toon)) :
                    Rows(BlockAt(before, pos).toon)[i] = "canit,sings,can0,v" =>
                        Rows(BlockAt(disk.doc, pos).toon)[i]
                            = "canit,sings|chant|recite|play (music),can0,v"

\* a run has written a document that held the row in an eligible {t,g,l,p} block
C3_Witness ==
    /\ script = "altgen" /\ pc = "done" /\ ~rerun
    /\ \E pos \in Positions(before) :
          /\ TglpBlock(BlockAt(before, pos))
          /\ BlockAt(before, pos).toon = "w{t,g,l,p}\ncanit,sings,can0,v"
          /\ BlockAt(disk.doc, pos).toon # BlockAt(before, pos).toon

\* the note key belongs to a row this run matched
RowMatched(block, key) ==
    /\ NotesEligible(block)
    /\ \E idx \in MatchedRows(block.toon) : Str(idx) = key

\* C4 as claimed: after a note-attachment run every earlier glossNotes entry whose
\* row this run did not match is still there with its text, also in a block where
\* another row was matched, and the blocks are in the order they were in.
C4_NotesKept ==
    (script = "notes" /\ pc = "done") =>
        /\ Len(disk.doc.pages) = Len(before.pages)
        /\ Positions(disk.doc) = Positions(before)
        /\ \A pos \in Positions(before) :
              LET old == BlockAt(before, pos)
                  new == BlockAt(disk.doc, pos)
              IN  /\ new.type = old.type /\ new.style = old.style /\ new.toon = old.toon
                  /\ old.glossNotes # <<>> =>
                        \A item \in old.glossNotes[1] :
                            (/\ \E idx \in 0..(Len(Rows(old.toon)) - 1) : Str(idx) = item[1]
                             /\ ~RowMatched(old, item[1])) =>
                                new.glossNotes # <<>> /\ item \in new.glossNotes[1]

\* C5: a block styled grammar-table is the same in memory and in the written
\* document as it was when the run loaded it, in both scripts, whatever its rows hold.
C5_GrammarTableUntouched ==
    Loaded =>
        \A pos \in Positions(before) :
            BlockAt(before, pos).style = "grammar-table" =>
                /\ BlockAt(chapter, pos) = BlockAt(before, pos)
                /\ pc = "done" => BlockAt(disk.doc, pos) = BlockAt(before, pos)

\* both scripts have run over a grammar-table block that holds "|", a row that
\* alternative-generation would enrich and a row whose note is in the table
C5_Witness ==
    /\ script = "notes" /\ pc = "done" /\ altgen_done
    /\ \E pos \in Positions(before) :
          LET block == BlockAt(before, pos)
          IN  /\ block.style = "grammar-table"
              /\ block.type = "text"
              /\ Contains(block.toon, "|")
              /\ process_toon(block.toon) # block.toon
              /\ MatchedRows(block.toon) # {}
              /\ BlockAt(disk.doc, pos) = block

\* the line is blank or has fewer fields than the header declares
TolerantLine(line, fields) ==
    Strip(line) = "" \/ Len(parse_csv(line)) < Len(fields)

\* the rows of an eligible block that are blank or short
TolerantRows(block) ==
    IF AltEligible(block) /\ Processable(block.toon)
    THEN {i \in 1..Len(Rows(block.toon)) :
            TolerantLine(Rows(block.toon)[i], HeaderFields(Split(block.toon, "\n")[1]))}
    ELSE {}

\* C6 as claimed: a blank line or a short row in an eligible block never makes an
\* alternative-generation run fail, and the line is the same in the written document.
C6_RowTolerance ==
    (script = "altgen" /\ Loaded /\ WellFormed(before)) =>
        \A pos \in Positions(before) :
            TolerantRows(BlockAt(before, pos)) # {} =>
                /\ pc # "failed"
                /\ pc = "done" =>
                      \A i \in TolerantRows(BlockAt(before, pos)) :
                          Rows(BlockAt(disk.doc, pos).toon)[i]
                              = Rows(BlockAt(before, pos).toon)[i]

SchemaMismatch(block) ==
    /\ AltEligible(block)
    /\ Len(Split(block.toon, "\n")) >= 2
    /\ LET header == Split(block.toon, "\n")[1]
       IN  \/ ~HasFieldList(header)
           \/ ~InSeq(HeaderFields(header), "t")
           \/ ~InSeq(HeaderFields(header), "g")
           \/ ~InSeq(HeaderFields(header), "l")

\* C8 as claimed: a run over a document with a schema mismatch in an eligible block
\* fails before any write.
C8_AsClaimed ==
    (script = "altgen" /\ Loaded
        /\ \E pos \in Positions(before) : SchemaMismatch(BlockAt(before, pos))) =>
        /\ pc \in {"loop", "failed"}
        /\ disk = disk0

\* C8, amended: a schema mismatch is not an error.  The block is left as it is and
\* is never the step a run fails at; a run over a document whose eligible blocks
\* all have such a header does not fail, modifies nothing and, once done, has
\* exited 0 and written the document it read.
C8_MismatchTolerated ==
    (script = "altgen" /\ Loaded) =>
        /\ \A pos \in Positions(before) :
              SchemaMismatch(BlockAt(before, pos)) =>
                  /\ BlockAt(chapter, pos) = BlockAt(before, pos)
                  /\ pc = "failed" => Events(chapter)[k] # pos
        /\ (WellFormed(before)
              /\ \A pos \in Positions(before) :
                    AltEligible(BlockAt(before, pos)) => SchemaMismatch(BlockAt(before, pos))) =>
              /\ pc # "failed"
              /\ total_blocks_modified = 0
              /\ pc = "done" => exit_code = 0 /\ disk.doc = before

\* a run has ended well over a block with a header without l and a row that a
\* {t,g,l,p} header would have had enriched
C8_Witness ==
    /\ script = "altgen" /\ pc = "done" /\ exit_code = 0
    /\ \E pos \in Positions(before) :
          /\ SchemaMismatch(BlockAt(before, pos))
          /\ BlockAt(before, pos).toon = "w{t,g}\ncanit,sings,can0,v"
          /\ BlockAt(disk.doc, pos) = BlockAt(before, pos)

\* the field of a row that the header names, "" when the row does not reach it
HeaderField(line, fields, name) ==
    IF IndexOf(fields, name) < Len(parse_csv(line))
    THEN parse_csv(line)[IndexOf(fields, name) + 1]
    ELSE ""

\* C9 as claimed: the note pass reports a row if and only if the field the header
\* names g, quoted commas counted, holds "|", and reports it as (its t field, the
\* first element of that gloss).
C9_PolyByHeader ==
    (script = "notes" /\ pc = "loop" /\ k = 1) =>
        \A pos \in Positions(chapter) :
            LET block  == BlockAt(chapter, pos)
                header == Split(block.toon, "\n")[1]
            IN  (/\ NotesEligible(block)
                 /\ HasFieldList(header)
                 /\ InSeq(HeaderFields(header), "t")
                 /\ InSeq(HeaderFields(header), "g")) =>
                    \A idx \in 0..(Len(Rows(block.toon)) - 1) :
                        LET line == RowAt(block.toon, idx)
                            g    == HeaderField(line, HeaderFields(header), "g")
                            tx   == HeaderField(line, HeaderFields(header), "t")
                        IN  /\ idx \in PolyIndices(block.toon)
                                <=> (Strip(line) # "" /\ Contains(g, "|"))
                            /\ idx \in PolyIndices(block.toon) =>
                                  PolyPair(block.toon, idx) = <<tx, Split(g, "|")[1]>>

\* C10 as claimed: a block whose type is not "text" has the payload and the
\* glossNotes it was loaded with, in both scripts.
C10_OnlyTextBlocks ==
    Loaded =>
        \A pos \in Positions(before) :
            BlockAt(before, pos).type # "text" =>
                /\ BlockAt(chapter, pos) = BlockAt(before, pos)
                /\ pc = "done" => BlockAt(disk.doc, pos) = BlockAt(before, pos)

\* C11: pick_alternatives returns the empty list for every lemma of the skip-set and
\* for every lemma without a table entry, whatever the correct sense; the skip test
\* comes before the table, so a lemma of the table put into the skip-set gets the
\* empty list too.
C11_SkipAndAbsent ==
    pc = "picked" =>
        /\ lemma \in SKIP_LEMMAS => alts = <<>>
        /\ lemma \notin DOMAIN POLYSEMOUS => alts = <<>>
        /\ lemma \in DOMAIN POLYSEMOUS =>
              pick_from(SKIP_LEMMAS \cup {lemma}, lemma, gloss) = <<>>

\* a call for a lemma whose table entry yields alternatives, and that yields none
\* once the lemma is in the skip-set
C11_Witness ==
    /\ pc = "picked"
    /\ lemma = "capi0" /\ gloss = "catches"
    /\ alts = <<"take", "seize", "capture">>
    /\ pick_from(SKIP_LEMMAS \cup {lemma}, lemma, gloss) = <<>>

\* the header fields of a payload process_toon gets to the rows of
FieldsOf(payload) == HeaderFields(Split(payload, "\n")[1])

\* the part-of-speech of a row, "" when the header declares no p
PosOf(line, fields) ==
    IF InSeq(fields, "p") THEN HeaderField(line, fields, "p") ELSE ""

\* the row is not a candidate: a function word or a row without part-of-speech,
\* a gloss that is empty or holds "|", a headword that is blank or of one character
NotCandidate(line, fields) ==
    \/ PosOf(line, fields) \in {"conj", "prep", "num", ""}
    \/ HeaderField(line, fields, "g") = ""
    \/ Contains(HeaderField(line, fields, "g"), "|")
    \/ Strip(HeaderField(line, fields, "t")) = ""
    \/ Len(HeaderField(line, fields, "t")) <= 1

\* C12: process_toon leaves every row that is not a candidate as it is, and returns
\* the payload "w{t,g,l,p}\net,and,et,conj" unchanged.
C12_NonCandidatesKept ==
    pc = "processed" =>
        /\ Processable(toon_in) =>
              /\ Len(Split(toon_out, "\n")) = Len(Split(toon_in, "\n"))
              /\ \A i \in 1..Len(Rows(toon_in)) :
                    NotCandidate(Rows(toon_in)[i], FieldsOf(toon_in)) =>
                        Rows(toon_out)[i] = Rows(toon_in)[i]
        /\ toon_in = "w{t,g,l,p}\net,and,et,conj" => toon_out = toon_in

\* process_toon has enriched a row next to the conj row, which it left as it was
C12_Witness ==
    /\ pc = "processed"
    /\ toon_in = "w{t,g,l,p}\net,and,et,conj\ncanit,sings,can0,v"
    /\ toon_out = "w{t,g,l,p}\net,and,et,conj\ncanit,sings|chant|recite|play (music),can0,v"

\* the block is one note-attachment is meant for, with a header that places t and g
NotesBlockWithSchema(block) ==
    /\ block.type = "text"
    /\ NotesEligible(block)
    /\ HasFieldList(Split(block.toon, "\n")[1])
    /\ InSeq(FieldsOf(block.toon), "t")
    /\ InSeq(FieldsOf(block.toon), "g")

\* the (headword, correct sense) pair of a row, by the header
PairByHeader(block, idx) ==
    LET line == RowAt(block.toon, idx)
    IN  <<HeaderField(line, FieldsOf(block.toon), "t"),
          Split(HeaderField(line, FieldsOf(block.toon), "g"), "|")[1]>>

\* the polysemous rows of a block whose pair is a key of the note table
NotedRows(block) ==
    {idx \in 0..(Len(Rows(block.toon)) - 1) :
        /\ Strip(RowAt(block.toon, idx)) # ""
        /\ Contains(HeaderField(RowAt(block.toon, idx), FieldsOf(block.toon), "g"), "|")
        /\ PairByHeader(block, idx) \in DOMAIN EXPLANATIONS}

\* C13 as claimed: after a note-attachment run the glossNotes of an eligible block
\* map the 0-based offset of every polysemous row whose literal (headword, correct
\* sense) pair is a key of the note table to that entry, and a block without such
\* a row has the glossNotes it had.
C13_NotesAttached ==
    (script = "notes" /\ pc = "done") =>
        \A pos \in Positions(before) :
            LET old == BlockAt(before, pos)
                new == BlockAt(disk.doc, pos)
            IN  NotesBlockWithSchema(old) =>
                    /\ \A idx \in NotedRows(old) :
                          /\ new.glossNotes # <<>>
                          /\ <<Str(idx), EXPLANATIONS[PairByHeader(old, idx)]>>
                                \in new.glossNotes[1]
                    /\ NotedRows(old) = {} => new.glossNotes = old.glossNotes

\* C20: the crop box crop_region uses and reports lies inside the image, with
\* 0 <= x1 <= x2 <= width and 0 <= y1 <= y2 <= height, whatever the request, and is
\* the requested box when the request satisfies those bounds.
C20_CropInside ==
    (command = "crop" /\ pc \in {"done", "failed"}) =>
        LET box == result.crop_box
        IN  /\ 0 <= box.x1 /\ box.x1 <= box.x2 /\ box.x2 <= image.width
            /\ 0 <= box.y1 /\ box.y1 <= box.y2 /\ box.y2 <= image.height
            /\ result.width = box.x2 - box.x1
            /\ result.height = box.y2 - box.y1
            /\ (/\ 0 <= args.x1 /\ args.x1 <= args.x2 /\ args.x2 <= image.width
                /\ 0 <= args.y1 /\ args.y1 <= args.y2 /\ args.y2 <= image.height) =>
                  box = args

\* a request that is reversed in x, negative in y1 and beyond the image in y2 has
\* been cropped
C20_Witness ==
    /\ command = "crop" /\ pc = "done"
    /\ image = [width |-> 2, height |-> 2]
    /\ args = [x1 |-> 2, y1 |-> -1, x2 |-> 0, y2 |-> 3]
    /\ result.crop_box = [x1 |-> 2, y1 |-> 0, x2 |-> 2, y2 |-> 2]

\* the detection is not an object with a box_2d of four numbers or without box_2d
MalformedItem(item) ==
    \/ item.kind # "object"
    \/ item.has_box /\ (~item.numeric \/ Len(item.box_2d) # 4)

\* the vision model failed: the call raised or timed out, the text is not JSON, or
\* the JSON has the wrong shape
CollaboratorFailed ==
    /\ response # <<>>
    /\ \/ response.kind \in {"raise", "not_json", "not_object", "bad_margin_x", "not_list"}
       \/ /\ response.kind = "list"
          /\ \E n \in 1..Len(response.value) : MalformedItem(response.value[n])

\* C14 as claimed: a failure of the vision model never ends a run as a fatal error;
\* margin cropping then uses the default ratio and inline extraction returns a list
\* of the detections it could use.
C14_CollaboratorDegrades ==
    (command \in {"margin", "inline"} /\ CollaboratorFailed) =>
        /\ pc # "failed"
        /\ (pc = "done" /\ command = "margin") =>
              /\ result.detection_method = "fallback"
              /\ result.margin_x = margin_boundary(<<>>, args.side, image.width)
        /\ (pc = "done" /\ command = "inline") =>
              /\ exit_code = 0
              /\ Len(result) <= Cardinality({n \in 1..Len(response.value) :
                                               ~MalformedItem(response.value[n])})

\* C15 as claimed: at every point of a run the file holds the complete document the
\* run found or the complete document the run writes, never an empty or partly
\* written one.
C15_AtomicReplace ==
    script \in {"altgen", "notes"} =>
        \/ disk = disk0
        \/ disk.state = "json" /\ disk.doc = chapter

\* the entries from the second on are in ascending order of length
AscendingTail(parts) ==
    \A n \in 2..(Len(parts) - 1) : Len(parts[n]) <= Len(parts[n + 1])

\* C16: after process_toon, the gloss of a row whose gloss held no "|" is the gloss
\* it was, or that gloss followed by two or more "|"-separated alternatives in
\* ascending order of length.
C16_GlossForm ==
    (pc = "processed" /\ Processable(toon_in)) =>
        /\ Len(Rows(toon_out)) = Len(Rows(toon_in))
        /\ \A i \in 1..Len(Rows(toon_in)) :
              LET g     == HeaderField(Rows(toon_in)[i], FieldsOf(toon_in), "g")
                  g_new == HeaderField(Rows(toon_out)[i], FieldsOf(toon_in), "g")
                  parts == Split(g_new, "|")
              IN  ~Contains(g, "|") =>
                      \/ g_new = g
                      \/ /\ parts[1] = g
                         /\ Len(parts) >= 3
                         /\ AscendingTail(parts)

\* a gloss has got three alternatives that the table lists in another order
C16_Witness ==
    /\ pc = "processed"
    /\ toon_in = "w{t,x,g,l,p}\ncapit,n,catches,capi0,v"
    /\ toon_out = "w{t,x,g,l,p}\ncapit,n,catches|take|seize|capture,capi0,v"

\* new_line is line with its g field extended by "|" and more, the other fields
\* as they were
GlossExtended(line, new_line, fields) ==
    LET values     == parse_csv(line)
        new_values == parse_csv(new_line)
        g          == IndexOf(fields, "g") + 1
    IN  /\ Len(new_values) = Len(values)
        /\ g <= Len(values)
        /\ \A n \in 1..Len(values) : n # g => new_values[n] = values[n]
        /\ StartsWith(new_values[g], values[g] \o "|")

\* the line is blank or has too few fields for the header's t, g and l
BlankOrShort(line, fields) ==
    \/ Strip(line) = ""
    \/ Len(parse_csv(line)) <= Max3(IndexOf(fields, "t"), IndexOf(fields, "g"),
                                    IndexOf(fields, "l"))

\* C17: process_toon keeps the header, the number and the order of the lines; a
\* line is byte-identical or is the original with only its g field extended; blank
\* lines, short rows and non-candidates are byte-identical; joining parse_csv(line)
\* with commas gives line; a payload with no changed row is returned as it was.
C17_OnlyGlossChanges ==
    pc = "processed" =>
        LET lines     == Split(toon_in, "\n")
            new_lines == Split(toon_out, "\n")
        IN  /\ Len(new_lines) = Len(lines)
            /\ new_lines[1] = lines[1]
            /\ \A i \in 1..Len(lines) : Join(parse_csv(lines[i]), ",") = lines[i]
            /\ \A i \in 2..Len(lines) :
                  \/ new_lines[i] = lines[i]
                  \/ /\ GlossExtended(lines[i], new_lines[i], FieldsOf(toon_in))
                     /\ ~BlankOrShort(lines[i], FieldsOf(toon_in))
                     /\ ~NotCandidate(lines[i], FieldsOf(toon_in))
            /\ (\A i \in 1..Len(lines) : new_lines[i] = lines[i]) => toon_out = toon_in
            /\ ~Processable(toon_in) => toon_out = toon_in

\* a row with a quoted comma has been enriched, the short row after it kept
C17_Witness ==
    /\ pc = "processed"
    /\ toon_in = "w{t,g,l,p}\n\"canit, et\",sings,can0,v\net,and"
    /\ toon_out = "w{t,g,l,p}\n\"canit, et\",sings|chant|recite|play (music),can0,v\net,and"

\* the (sense, third person form) pairs the table lists for one lemma
ConjugationPairs ==
    {<<"catch", "catches">>, <<"make", "makes">>, <<"move", "moves">>, <<"see", "sees">>,
     <<"hear", "hears">>, <<"do", "does">>, <<"have", "has">>}

\* C18 as claimed: a sense and its -s / -es form that the table lists for the lemma
\* have the same normalized form, and pick_alternatives does not offer one of them
\* when the other is the correct sense.
C18_VariantsCollapse ==
    (pc = "picked" /\ lemma \in DOMAIN POLYSEMOUS) =>
        \A pair \in ConjugationPairs :
            (InSeq(POLYSEMOUS[lemma], pair[1]) /\ InSeq(POLYSEMOUS[lemma], pair[2])) =>
                /\ normalize(pair[1]) = normalize(pair[2])
                /\ gloss = pair[1] => ~InSeq(alts, pair[2])
                /\ gloss = pair[2] => ~InSeq(alts, pair[1])

\* the candidates that survive filtering and deduplication, in table order
Survivors ==
    IF lemma \in DOMAIN POLYSEMOUS /\ lemma \notin SKIP_LEMMAS
    THEN CollectAlts(POLYSEMOUS[lemma], 1, {normalize(gloss)}, <<>>, gloss)
    ELSE <<>>

\* a comes before b in the order of: shorter first, table order among equal lengths
Before(a, b, table) ==
    \/ Len(a) < Len(b)
    \/ Len(a) = Len(b) /\ IndexOf(table, a) < IndexOf(table, b)

\* C19: pick_alternatives returns 0, 2, 3 or 4 entries, never one; they are
\* survivors, in ascending order of length with table order among equal lengths;
\* all of them when two to four survive, none when fewer do, and the first four of
\* that order when more do.
C19_CountAndOrder ==
    pc = "picked" =>
        /\ Len(alts) \in {0, 2, 3, 4}
        /\ \A n \in 1..Len(alts) : InSeq(Survivors, alts[n])
        /\ Len(Survivors) < 2 => alts = <<>>
        /\ Len(Survivors) \in 2..4 => Len(alts) = Len(Survivors)
        /\ Len(Survivors) > 4 => Len(alts) = 4
        /\ \A n \in 1..(Len(alts) - 1) : Before(alts[n], alts[n + 1], Survivors)
        /\ alts # <<>> =>
              \A n \in 1..Len(Survivors) :
                  ~InSeq(alts, Survivors[n]) =>
                      \A j \in 1..Len(alts) : Before(alts[j], Survivors[n], Survivors)

\* more than four candidates survived, two of the same length among them, and the
\* four shortest came back
C19_Witness ==
    /\ pc = "picked"
    /\ Len(Survivors) > 4
    /\ Len(alts) = 4
    /\ \E n \in 1..3 : Len(alts[n]) = Len(alts[n + 1])

=============================================================================
